---- MODULE Spec2Model ----
(***************************************************************************)
(* Feedback Co-Pilot server (src/server.js): the upload handler, the       *)
(* document link resolver, the prompt composer and the /api/analyze        *)
(* handler.  Strings are sequences of one-character strings, so that the   *)
(* regular expressions and substring tests of the source are computed on   *)
(* characters, as the source computes them.                                *)
(***************************************************************************)
EXTENDS Integers, Sequences, FiniteSets, TLC

VARIABLES
    upc,        \* /api/upload: "idle" -> "stored" -> "done"
    reqFile,    \* req.file as multer leaves it: NoFile or [originalname, path]
    disk,       \* paths under uploads/ that exist, with their bytes
    upEnv,      \* what the collaborators do during this upload request
    upRes,      \* the response sent by /api/upload (NoRes before it is sent)
    upLog,      \* the file-system and parser calls of the upload handler, in order
    genCalls,   \* calls of model.generateContent so far
    apc,        \* /api/analyze: "idle", awaiting "fetch1", "fetch2" or "model", "done"
    req,        \* req.body: task, content, contentType, customPrompt, criteria
    content,    \* the handler's variable content
    dtype,      \* the handler's variable detectedContentType
    docInfo,    \* what extractGoogleDocId returned for the link
    resp1,      \* the response of the first export fetch
    net,        \* the outbound calls started, in order
    settled,    \* the outcome of each outbound call that settled, in order
    open,       \* outbound calls started and not yet settled
    resolverErr,\* the error thrown in the resolver's try block and the one it rejects with
    resolved,   \* link resolution: "none", "pending", "ok", "failed"
    aRes,       \* the response sent by /api/analyze
    tpc,        \* GET /api/airtable/...: "idle", "fetching", "done", "unrouted"
    route,      \* the path of the GET request
    creds,      \* whether AIRTABLE_API_KEY and AIRTABLE_BASE_ID are set
    allRecords, \* the handler's variable allRecords
    offset,     \* the handler's variable offset
    tNet,       \* the provider fetches started, in order
    tPages,     \* the outcome of each provider fetch that settled, in order
    tRes,       \* the response sent by the airtable handler
    express,    \* the response Express itself sent, when no handler answered
    file,       \* App: the selected file's name, or Null
    googleDocsLink, \* App: the text of the link input
    assignmentText, \* App: the assignment text
    loading,    \* App: the loading flag
    uiError,    \* App: the error shown
    uiFeedback, \* App: the feedback shown
    uiPc,       \* handleSubmit: "idle", or awaiting "upload" or "analyze"
    uiNet,      \* the requests handleSubmit made since it was last started, in order
    uiDone,     \* the outcome of each of these requests that settled, in order
    submitTag   \* flips each time handleSubmit is started

upVars == <<upc, reqFile, disk, upEnv, upRes, upLog>>
anVars == <<apc, req, content, dtype, docInfo, resp1, net, settled, open, resolverErr,
            resolved, aRes>>
atVars == <<tpc, route, creds, allRecords, offset, tNet, tPages, tRes>>
uiVars == <<file, googleDocsLink, assignmentText, loading, uiError, uiFeedback, uiPc, uiNet,
            uiDone, submitTag>>
vars == <<upVars, genCalls, anVars, atVars, express, uiVars>>

----------------------------------------------------------------------------
(* Strings *)

NL == "\n"

\* s.startsWith(p) at index i (1-based)
MatchAt(s, i, p) ==
    /\ i >= 1
    /\ i + Len(p) - 1 <= Len(s)
    /\ \A k \in 1..Len(p) : s[i + k - 1] = p[k]

StartsWith(s, p) == MatchAt(s, 1, p)

\* s.includes(p)
Includes(s, p) == \E i \in 1..(Len(s) + 1) : MatchAt(s, i, p)

From(s, i) == SubSeq(s, i, Len(s))

UpperChars == <<"A", "B", "C", "D", "E", "F", "G", "H", "I", "J", "K", "L", "M", "N", "O", "P",
        "Q", "R", "S", "T", "U", "V", "W", "X", "Y", "Z">>
LowerChars == <<"a", "b", "c", "d", "e", "f", "g", "h", "i", "j", "k", "l", "m", "n", "o", "p",
        "q", "r", "s", "t", "u", "v", "w", "x", "y", "z">>
DigitChars == <<"0", "1", "2", "3", "4", "5", "6", "7", "8", "9">>

Range(f) == {f[i] : i \in DOMAIN f}

LowerOf(c) ==
    IF c \in Range(UpperChars)
    THEN LowerChars[CHOOSE i \in 1..Len(UpperChars) : UpperChars[i] = c]
    ELSE c

\* String.prototype.toLowerCase
ToLowerCase(s) == [i \in 1..Len(s) |-> LowerOf(s[i])]

\* \w of a JavaScript regular expression
WordChars == Range(UpperChars) \cup Range(LowerChars) \cup Range(DigitChars) \cup {"_"}
\* \s of a JavaScript regular expression (the characters the model draws)
SpaceChars == {" ", NL, "\t", "\r"}
\* what . does not match
LineTerminators == {NL, "\r"}

----------------------------------------------------------------------------
(* Words of the source *)

Host == <<"d", "o", "c", "s", ".", "g", "o", "o", "g", "l", "e", ".", "c", "o", "m">>
Https == <<"h", "t", "t", "p", "s", ":", "/", "/">>
DocumentD == <<"/", "d", "o", "c", "u", "m", "e", "n", "t", "/", "d", "/">>
PresentationD ==
    <<"/", "p", "r", "e", "s", "e", "n", "t", "a", "t", "i", "o", "n", "/", "d", "/">>
DocumentSub == <<"/", "d", "o", "c", "u", "m", "e", "n", "t", "/">>
PresentationSub == <<"/", "p", "r", "e", "s", "e", "n", "t", "a", "t", "i", "o", "n", "/">>
EditTail == <<"/", "e", "d", "i", "t">>
DataImage == <<"d", "a", "t", "a", ":", "i", "m", "a", "g", "e">>
DataImageSlash == <<"d", "a", "t", "a", ":", "i", "m", "a", "g", "e", "/">>
TokTask == <<"{", "{", "t", "a", "s", "k", "}", "}">>
TokContent == <<"{", "{", "c", "o", "n", "t", "e", "n", "t", "}", "}">>
TokCriteria == <<"{", "{", "c", "r", "i", "t", "e", "r", "i", "a", "}", "}">>
CriteriaHeading ==
    <<"#", "#", "#", " ", "E", "V", "A", "L", "U", "A", "T", "I", "O", "N", " ", "C",
      "R", "I", "T", "E", "R", "I", "A", ":">>
WorkHeading ==
    <<"#", "#", "#", " ", "S", "T", "U", "D", "E", "N", "T", " ", "W", "O", "R", "K",
      ":">>
CriteriaWords ==
    <<"E", "V", "A", "L", "U", "A", "T", "I", "O", "N", " ", "C", "R", "I", "T", "E",
      "R", "I", "A">>
MsgInvalidUrl ==
    <<"I", "n", "v", "a", "l", "i", "d", " ", "G", "o", "o", "g", "l", "e", " ", "D",
      "o", "c", "s", " ", "o", "r", " ", "S", "l", "i", "d", "e", "s", " ", "U", "R",
      "L", " ", "f", "o", "r", "m", "a", "t">>
MsgInvalidImage ==
    <<"I", "n", "v", "a", "l", "i", "d", " ", "i", "m", "a", "g", "e", " ", "f", "o",
      "r", "m", "a", "t">>
MsgApiKey ==
    <<"I", "n", "v", "a", "l", "i", "d", " ", "o", "r", " ", "m", "i", "s", "s", "i",
      "n", "g", " ", "G", "e", "m", "i", "n", "i", " ", "A", "P", "I", " ", "k", "e",
      "y", ".", " ", "P", "l", "e", "a", "s", "e", " ", "c", "h", "e", "c", "k", " ",
      "y", "o", "u", "r", " ", ".", "e", "n", "v", " ", "f", "i", "l", "e", ".">>
MsgGenerate ==
    <<"F", "a", "i", "l", "e", "d", " ", "t", "o", " ", "g", "e", "n", "e", "r", "a",
      "t", "e", " ", "f", "e", "e", "d", "b", "a", "c", "k", ":", " ">>
MsgUnknown == <<"U", "n", "k", "n", "o", "w", "n", " ", "e", "r", "r", "o", "r">>
ApiKeyUpper == <<"A", "P", "I", "_", "K", "E", "Y">>
ApiKeyWords == <<"A", "P", "I", " ", "k", "e", "y">>

----------------------------------------------------------------------------
(* path.extname and Buffer.toString('base64') *)

\* 1-based index of the last occurrence of character c in s; 0 when absent
LastIndexOfChar(s, c) ==
    IF \E i \in 1..Len(s) : s[i] = c
    THEN CHOOSE i \in 1..Len(s) : s[i] = c /\ \A j \in (i + 1)..Len(s) : s[j] # c
    ELSE 0

\* path.basename: what follows the last "/"
BaseName(p) == From(p, LastIndexOfChar(p, "/") + 1)

\* path.extname: from the last "." of the base name to its end; "" when the
\* base name has no "." or only a leading one
ExtName(p) ==
    LET base == BaseName(p)
        k == LastIndexOfChar(base, ".")
    IN  IF k <= 1 \/ base = <<".", ".">> THEN <<>> ELSE From(base, k)


Sextet(n) == <<"A", "B", "C", "D", "E", "F", "G", "H", "I", "J", "K", "L", "M", "N", "O", "P",
        "Q", "R", "S", "T", "U", "V", "W", "X", "Y", "Z", "a", "b", "c", "d", "e", "f", "g",
        "h", "i", "j", "k", "l", "m", "n", "o", "p", "q", "r", "s", "t", "u", "v", "w", "x",
        "y", "z", "0", "1", "2", "3", "4", "5", "6", "7", "8", "9", "+", "/">>[n + 1]

\* Buffer.toString('base64'): three bytes to four characters, "=" padding
RECURSIVE Base64(_)
Base64(bytes) ==
    IF Len(bytes) = 0 THEN <<>>
    ELSE IF Len(bytes) = 1 THEN
        <<Sextet(bytes[1] \div 4), Sextet((bytes[1] % 4) * 16), "=", "=">>
    ELSE IF Len(bytes) = 2 THEN
        <<Sextet(bytes[1] \div 4),
          Sextet((bytes[1] % 4) * 16 + bytes[2] \div 16),
          Sextet((bytes[2] % 16) * 4), "=">>
    ELSE
        <<Sextet(bytes[1] \div 4),
          Sextet((bytes[1] % 4) * 16 + bytes[2] \div 16),
          Sextet((bytes[2] % 16) * 4 + bytes[3] \div 64),
          Sextet(bytes[3] % 64)>> \o Base64(From(bytes, 4))

----------------------------------------------------------------------------
(* POST /api/upload *)

ExtPdf == <<".", "p", "d", "f">>
ExtPng == <<".", "p", "n", "g">>
ExtJpg == <<".", "j", "p", "g">>
ExtJpeg == <<".", "j", "p", "e", "g">>
MimeJpeg == <<"i", "m", "a", "g", "e", "/", "j", "p", "e", "g">>
MimePng == <<"i", "m", "a", "g", "e", "/", "p", "n", "g">>
DataColon == <<"d", "a", "t", "a", ":">>
Base64Mark == <<";", "b", "a", "s", "e", "6", "4", ",">>

\* bounds of the upload inputs
MaxBytes == 2
MaxNameLen == 1

RECURSIVE SeqsUpTo(_, _)
SeqsUpTo(S, n) ==
    IF n = 0 THEN {<<>>}
    ELSE LET shorter == SeqsUpTo(S, n - 1)
         IN  shorter \cup {Append(s, x) : s \in {t \in shorter : Len(t) = n - 1}, x \in S}
\* the bytes of an uploaded file
FileBytes == SeqsUpTo({0, 77, 255}, MaxBytes)

\* file names as the browser sends them: a stem and an extension
OriginalNames == {s \o e : s \in (SeqsUpTo({"e"}, MaxNameLen)), e \in {<<>>, ExtPdf, <<".", "P",
        "D", "F">>, ExtPng, <<".", "P", "n", "G">>, ExtJpg, <<".", "J", "P", "G">>, ExtJpeg,
        <<".", "d", "o", "c", "x">>, <<".", "t", "x", "t">>, <<".", "p", "n", "g", ".", "t",
        "x", "t">>}}

\* multer({dest: 'uploads/'}): the stored file is uploads/<random hex name>,
\* a name without extension
TmpPaths == {<<"u", "p", "l", "o", "a", "d", "s", "/">> \o h : h \in {<<"3", "f">>, <<"a", "0",
        "c">>}}

NoFile == [present |-> FALSE, originalname |-> <<>>, path |-> <<>>]
NoRes == [sent |-> FALSE, status |-> 0, type |-> "", content |-> <<>>, error |-> ""]

\* what pdf-parse, readFileSync and unlinkSync do during one request:
\* unlinkThrows[k] says whether the k-th unlinkSync call of the request throws
UploadEnvs ==
    [readThrows : BOOLEAN, pdfThrows : BOOLEAN, pdfText : {<<>>, <<"p", "d", "f", " ", "t", "e",
            "x", "t">>},
     unlinkThrows : [1..2 -> BOOLEAN]]

Json(status, type, body, error) ==
    [sent |-> TRUE, status |-> status, type |-> type, content |-> body, error |-> error]

\* fs.readFileSync(path) in handler state h: the bytes, or a throw
ReadFile(h, path) ==
    LET hit == {f \in h.disk : f.path = path}
        threw == upEnv.readThrows \/ hit = {}
    IN  [threw |-> threw,
         bytes |-> IF threw THEN <<>> ELSE (CHOOSE f \in hit : TRUE).bytes,
         h |-> [h EXCEPT !.log = Append(@, IF threw THEN "read:throws" ELSE "read")]]

\* fs.unlinkSync(path) in handler state h: removes the file, or throws and
\* leaves it
Unlink(h, path) ==
    LET k == h.unlinks + 1
        threw == upEnv.unlinkThrows[k] \/ ~(\E f \in h.disk : f.path = path)
    IN  [threw |-> threw,
         h |-> [disk |-> IF threw THEN h.disk ELSE {f \in h.disk : f.path # path},
                unlinks |-> k,
                log |-> Append(h.log, IF threw THEN "unlink:throws" ELSE "unlink")]]

\* imageToBase64(filePath): the extension is taken from filePath
imageToBase64(bytes, filePath) ==
    LET ext == ToLowerCase(ExtName(filePath))
    IN  [data |-> Base64(bytes),
         mimeType |-> IF ext = ExtPng THEN MimePng ELSE MimeJpeg]

Done(h, res) == [disk |-> h.disk, log |-> h.log, res |-> res]

\* UploadCatch without its cleanup: the catch block answers 500 and leaves the file
UploadCatchNoCleanup(h) == Done(h, Json(500, "", <<>>, "Failed to process file"))

\* the catch block of the upload handler
UploadCatch(h) ==
    LET h2 == IF reqFile.present /\ reqFile.path # <<>>
              THEN Unlink(h, reqFile.path).h
              ELSE h
    IN  Done(h2, Json(500, "", <<>>, "Failed to process file"))

\* the .pdf branch
UploadPdf(h) ==
    LET r == ReadFile(h, reqFile.path)
        parsed == [r.h EXCEPT !.log = Append(@,
                IF upEnv.pdfThrows THEN "parse:throws" ELSE "parse")]
        u == Unlink(parsed, reqFile.path)
    IN  IF r.threw THEN UploadCatch(r.h)
        ELSE IF upEnv.pdfThrows THEN UploadCatch(parsed)
        ELSE IF u.threw THEN UploadCatch(u.h)
        ELSE Done(u.h, Json(200, "text", upEnv.pdfText, ""))

\* the .png/.jpg/.jpeg branch
UploadImage(h) ==
    LET r == ReadFile(h, reqFile.path)
        b == imageToBase64(r.bytes, reqFile.path)
        u == Unlink(r.h, reqFile.path)
    IN  IF r.threw THEN UploadCatch(r.h)
        ELSE IF u.threw THEN UploadCatch(u.h)
        ELSE Done(u.h, Json(200, "image", DataColon \o b.mimeType \o Base64Mark \o b.data, ""))

\* the unsupported-type branch
UploadUnsupported(h) ==
    LET u == Unlink(h, reqFile.path)
    IN  IF u.threw THEN UploadCatch(u.h)
        ELSE Done(u.h, Json(400, "", <<>>, "Unsupported file type"))

\* path.extname(req.file.originalname).toLowerCase()
fileExtension == ToLowerCase(ExtName(reqFile.originalname))

\* app.post('/api/upload', ...): the handler, from req.file to the response
UploadHandler(h) ==
    IF ~reqFile.present THEN Done(h, Json(400, "", <<>>, "No file uploaded"))
    ELSE IF fileExtension = ExtPdf THEN UploadPdf(h)
    ELSE IF fileExtension \in {ExtPng, ExtJpg, ExtJpeg} THEN UploadImage(h)
    ELSE UploadUnsupported(h)

UploadIdle ==
    /\ upc = "idle"
    /\ reqFile = NoFile
    /\ disk = {}
    /\ upEnv \in UploadEnvs
    /\ upRes = NoRes
    /\ upLog = <<>>

\* Express answers by itself when no handler does: its final handler sends
\* an HTML page, with the status of the error that a middleware passed to
\* next() (500 when the error has none), or 404 when no route matched
NoExpress == [sent |-> FALSE, status |-> 0, json |-> FALSE, cause |-> ""]
ExpressAnswer(status, cause) == [sent |-> TRUE, status |-> status, json |-> FALSE,
        cause |-> cause]

\* upload.single('file'): the file part is larger than limits.fileSize; multer
\* removes what it stored and passes a MulterError to next(), the route
\* handler does not run
UploadTooLarge ==
    /\ UNCHANGED uiVars
    /\ upc = "idle"
    /\ express' = ExpressAnswer(500, "LIMIT_FILE_SIZE")
    /\ upc' = "rejected"
    /\ UNCHANGED <<reqFile, disk, upEnv, upRes, upLog, genCalls, anVars, atVars>>

\* upload.single('file'): multer stores the file part, if the request has one
UploadReceive ==
    /\ UNCHANGED uiVars
    /\ upc = "idle"
    /\ \/ \E name \in OriginalNames, p \in TmpPaths, b \in FileBytes :
            /\ reqFile' = [present |-> TRUE, originalname |-> name, path |-> p]
            /\ disk' = disk \cup {[path |-> p, bytes |-> b]}
       \/ reqFile' = NoFile /\ disk' = disk
    /\ upc' = "stored"
    /\ UNCHANGED <<upEnv, upRes, upLog, genCalls, anVars, atVars, express>>

\* the route handler runs to its response
UploadHandle ==
    /\ UNCHANGED uiVars
    /\ upc = "stored"
    /\ LET out == UploadHandler([disk |-> disk, unlinks |-> 0, log |-> <<>>])
       IN  /\ disk' = out.disk
           /\ upLog' = out.log
           /\ upRes' = out.res
    /\ upc' = "done"
    /\ UNCHANGED <<reqFile, upEnv, genCalls, anVars, atVars, express>>

----------------------------------------------------------------------------
(* String.prototype.replace, as the handler uses it *)

\* a value that is undefined (a field the request body does not carry)
Undefined == <<"undefined">>
\* !x of a string-or-undefined value
Falsy(x) == x = Undefined \/ x = <<>>

Min(S) == CHOOSE x \in S : \A y \in S : x <= y

\* length of the maximal run of characters of S in s from index i
RECURSIVE RunLen(_, _, _)
RunLen(s, i, S) == IF i <= Len(s) /\ s[i] \in S THEN 1 + RunLen(s, i + 1, S) ELSE 0

\* number of "\n" in s
RECURSIVE NewLines(_)
NewLines(s) == IF s = <<>> THEN 0 ELSE (IF Head(s) = NL THEN 1 ELSE 0) + NewLines(Tail(s))

\* the regular expressions of the handler
ReLit(p) == [kind |-> "lit", text |-> p, groups |-> 0]     \* /p/ with p literal
ReGroup(p) == [kind |-> "lit", text |-> p, groups |-> 1]   \* /(p)/ with p literal

\* length of the match of re at index i of s; 0 when re does not match there
\* (no expression of the handler matches the empty string)
MatchLen(re, s, i) ==
    IF ~MatchAt(s, i, re.text) THEN 0
    ELSE IF re.kind = "lit" THEN Len(re.text)
    ELSE LET start == i + Len(re.text)
             w == RunLen(s, start, SpaceChars)
             run == SubSeq(s, start, start + w - 1)
         IN  IF re.kind = "headingBlank"
             THEN \* \s*\n\s*\n backtracks to end at the last "\n" of the run
                  IF NewLines(run) >= 2
                  THEN Len(re.text) + LastIndexOfChar(run, NL)
                  ELSE 0
             ELSE \* \s*\n\s* is the whole run, which holds a "\n"
                  IF NewLines(run) >= 1 /\ MatchAt(s, start + w, WorkHeading)
                  THEN Len(re.text) + w + Len(WorkHeading)
                  ELSE 0

\* the replacement string rep expanded for the match of length m at index i
\* of s: $$, $&, $`, $' and $1 (when the expression has a group, which in
\* this handler is the whole match)
\* the apostrophe and the grave accent; the grave accent is written by its
\* name, as a string of the module cannot hold the character itself
Apostrophe == "'"
Backtick == "grave"

\* the characters that make a replacement pattern after "$"
PatternChars(groups) == {"$", "&", Backtick, Apostrophe}
        \cup (IF groups >= 1 THEN {"1"} ELSE {})

\* the index of the first replacement pattern of rep; 0 when it has none
NextPattern(rep, groups) ==
    LET at == {j \in 1..(Len(rep) - 1) : rep[j] = "$" /\ rep[j + 1] \in PatternChars(groups)}
    IN  IF at = {} THEN 0 ELSE CHOOSE j \in at : \A k \in at : j <= k

RECURSIVE Expand(_, _, _, _, _)
Expand(rep, s, i, m, groups) ==
    LET j == NextPattern(rep, groups)
    IN  IF j = 0 THEN rep
        ELSE SubSeq(rep, 1, j - 1)
               \o (CASE rep[j + 1] = "$" -> <<"$">>
                     [] rep[j + 1] = "&" -> SubSeq(s, i, i + m - 1)
                     [] rep[j + 1] = Backtick -> SubSeq(s, 1, i - 1)
                     [] rep[j + 1] = Apostrophe -> From(s, i + m)
                     [] OTHER -> SubSeq(s, i, i + m - 1))
               \o Expand(From(rep, j + 2), s, i, m, groups)

\* the first index at or after i where re matches in s; 0 when there is none
NextMatch(s, i, re) ==
    LET at == {j \in i..Len(s) : MatchLen(re, s, j) > 0}
    IN  IF at = {} THEN 0 ELSE CHOOSE j \in at : \A k \in at : j <= k

RECURSIVE ReplaceFrom(_, _, _, _, _)
ReplaceFrom(s, i, re, rep, global) ==
    LET j == NextMatch(s, i, re)
    IN  IF j = 0 THEN From(s, i)
        ELSE LET m == MatchLen(re, s, j)
             IN  SubSeq(s, i, j - 1) \o Expand(rep, s, j, m, re.groups)
                    \o (IF global THEN ReplaceFrom(s, j + m, re, rep, global)
                        ELSE From(s, j + m))

\* s.replace(/re/g, rep) and s.replace(/re/, rep)
ReplaceAll(s, re, rep) == ReplaceFrom(s, 1, re, rep, TRUE)
ReplaceFirst(s, re, rep) == ReplaceFrom(s, 1, re, rep, FALSE)

\* s.trim() is not empty
NonBlank(s) == \E i \in 1..Len(s) : s[i] \notin SpaceChars

----------------------------------------------------------------------------
(* The document link resolver *)

IdChars == Range(UpperChars) \cup Range(LowerChars) \cup Range(DigitChars) \cup {"-", "_"}

\* url.match(/<prefix>([a-zA-Z0-9-_]+)/): the leftmost place where prefix is
\* followed by an ID character, and the maximal run of ID characters there
IdMatch(url, prefix) ==
    LET hits == {i \in 1..Len(url) :
                    MatchAt(url, i, prefix) /\ RunLen(url, i + Len(prefix), IdChars) >= 1}
        start == Min(hits) + Len(prefix)
    IN  IF hits = {} THEN [matched |-> FALSE, id |-> <<>>]
        ELSE [matched |-> TRUE,
              id |-> SubSeq(url, start, start + RunLen(url, start, IdChars) - 1)]

NoDoc == [found |-> FALSE, id |-> <<>>, type |-> ""]

\* extractGoogleDocId(url): the document pattern is tried first
extractGoogleDocId(url) ==
    LET docMatch == IdMatch(url, DocumentD)
        slidesMatch == IdMatch(url, PresentationD)
    IN  IF docMatch.matched THEN [found |-> TRUE, id |-> docMatch.id, type |-> "document"]
        ELSE IF slidesMatch.matched
            THEN [found |-> TRUE, id |-> slidesMatch.id, type |-> "presentation"]
        ELSE NoDoc

TypeWord(type) == IF type = "document" THEN <<"d", "o", "c", "u", "m", "e", "n",
        "t">> ELSE <<"p", "r", "e", "s", "e", "n", "t", "a", "t", "i", "o", "n">>

\* the export request of fetchGoogleDocsContent
ExportCall(info, format) ==
    [kind |-> "export", type |-> info.type, id |-> info.id, format |-> format]

NoError == [kind |-> "none", message |-> <<>>]
\* new Error(`Failed to fetch ${docInfo.type} content: ${response.status} ${response.statusText}`)
FetchFailedError(info, response) ==
    [kind |-> "fetchFailed",
     message |-> <<"F", "a", "i", "l", "e", "d", " ", "t", "o", " ", "f", "e", "t", "c", "h",
             " ">> \o TypeWord(info.type) \o <<" ", "c", "o", "n", "t", "e", "n", "t", ":",
             " ">>
                    \o response.status \o <<" ">> \o response.statusText]
\* what fetch rejects with when the request itself fails
NetworkError == [kind |-> "network", message |-> <<"f", "e", "t", "c", "h", " ", "f", "a", "i",
        "l", "e", "d">>]

\* the catch block of fetchGoogleDocsContent.  Its first statement reads
\* docInfo, a const of the try block that is not in scope in the catch
\* block: evaluating it throws a ReferenceError, which is what the function
\* rejects with, whatever error was caught.
ResolverCatch(error) == [kind |-> "reference", message |-> <<"d", "o", "c", "I", "n", "f", "o",
        " ", "i", "s", " ", "n", "o", "t", " ", "d", "e", "f", "i", "n", "e", "d">>]

----------------------------------------------------------------------------
(* The prompt composer *)

\* a content-type tag that is set: neither undefined nor the empty string
Truthy(contentType) == contentType \notin {"undefined", ""}

\* getContentTypeDescription(contentType): each description stands for the
\* prose of the source
getContentTypeDescription(contentType) ==
    CASE contentType = "pdf" -> "a PDF file"
      [] contentType = "image" -> "an image (PNG, JPG)"
      [] contentType = "google-docs" -> "a Google Docs document"
      [] contentType = "google-slides" -> "a Google Slides presentation"
      [] OTHER -> "a document"

\* the sentence that stands for an image in the instruction text: one element,
\* no expression of the handler looks inside it
ImagePlaceholder == <<"[the student's work is provided as an image below]">>

\* contentTypeNote: two line feeds, the disclosure sentence naming the
\* format, a line feed
ContentTypeNote(contentType) ==
    IF Truthy(contentType)
    THEN <<NL, NL, "**IMPORTANT:** the student's work is provided as ",
           getContentTypeDescription(contentType),
           ". Take this into account and do not recommend creating what is already provided.",
           NL>>
    ELSE <<>>

\* generateDefaultPrompt(task, content, isImage, contentType): the fixed
\* guidance (one element each for the text before and after the variable
\* part), the task, the note and the student's work
generateDefaultPrompt(task, c, isImage, contentType) ==
    <<"# SYSTEM PROMPT: Feedback Co-Pilot ... ">> \o <<"#", "#", "#", " ", "A", "S", "S", "I",
            "G", "N", "M", "E", "N", "T", ":">> \o <<NL, NL>>
        \o task \o ContentTypeNote(contentType) \o <<NL>>
        \o WorkHeading \o <<NL, NL>>
        \o (IF isImage THEN ImagePlaceholder ELSE c)
        \o <<NL, NL, "---", NL, NL, "Create the feedback ... in Ukrainian.">>

\* /### EVALUATION CRITERIA:\s*\n\s*### STUDENT WORK:/
\* /### EVALUATION CRITERIA:\s*\n\s*\n/
\* the criteria section of a custom prompt: the token is removed, then the
\* heading over blank lines, then the heading before the student-work heading
RemoveCriteria(customPrompt) ==
    LET p1 == ReplaceAll(customPrompt, ReLit(TokCriteria), <<>>)
        p2 == ReplaceAll(p1, [kind |-> "headingBlank", text |-> CriteriaHeading, groups |-> 0],
                <<>>)
    IN  ReplaceAll(p2, [kind |-> "headingWork", text |-> CriteriaHeading, groups |-> 0],
            WorkHeading)

\* the content-type note is put before the student-work heading, or else
\* before the content token
InsertNote(p, note) ==
    IF note # <<>> /\ Includes(p, <<"S", "T", "U", "D", "E", "N", "T", " ", "W", "O", "R",
            "K">>)
    THEN ReplaceFirst(p, ReGroup(WorkHeading), note \o <<"$", "1">>)
    ELSE IF note # <<>> /\ Includes(p, TokContent)
    THEN ReplaceFirst(p, ReGroup(TokContent), note \o <<"$", "1">>)
    ELSE p

\* a custom-prompt branch that substitutes the task and the content first
CustomPromptTextSubstFirst(customPrompt, task, c, isImage, contentType) ==
    LET contentForPrompt == IF isImage THEN ImagePlaceholder ELSE c
        substituted == ReplaceAll(ReplaceAll(customPrompt, ReLit(TokTask), task),
                                  ReLit(TokContent), contentForPrompt)
    IN  InsertNote(RemoveCriteria(substituted), ContentTypeNote(contentType))

\* the custom-prompt branch of the handler
CustomPromptText(customPrompt, task, c, isImage, contentType) ==
    LET processed == InsertNote(RemoveCriteria(customPrompt), ContentTypeNote(contentType))
        contentForPrompt == IF isImage THEN ImagePlaceholder ELSE c
    IN  ReplaceAll(ReplaceAll(processed, ReLit(TokTask), task),
                   ReLit(TokContent), contentForPrompt)

\* customPrompt alone, without the trim
UsesCustomPromptUntrimmed(customPrompt) == customPrompt \notin {Undefined, <<>>}

\* customPrompt && customPrompt.trim()
UsesCustomPrompt(customPrompt) == customPrompt # Undefined /\ NonBlank(customPrompt)

\* content.match with (.*) for the data: an empty payload matches
ParseDataUriLoose(c) ==
    LET from == Len(DataImageSlash) + 1
        w == RunLen(c, from, WordChars)
        data == From(c, from + w + Len(Base64Mark))
    IN  IF /\ StartsWith(c, DataImageSlash)
           /\ w >= 1
           /\ MatchAt(c, from + w, Base64Mark)
           /\ \A i \in 1..Len(data) : data[i] \notin LineTerminators
        THEN [matched |-> TRUE, subtype |-> SubSeq(c, from, from + w - 1), data |-> data]
        ELSE [matched |-> FALSE, subtype |-> <<>>, data |-> <<>>]

\* content.match(/^data:image\/(\w+);base64,(.+)$/)
ParseDataUri(c) ==
    LET from == Len(DataImageSlash) + 1
        w == RunLen(c, from, WordChars)
        data == From(c, from + w + Len(Base64Mark))
    IN  IF /\ StartsWith(c, DataImageSlash)
           /\ w >= 1
           /\ MatchAt(c, from + w, Base64Mark)
           /\ data # <<>>
           /\ \A i \in 1..Len(data) : data[i] \notin LineTerminators
        THEN [matched |-> TRUE, subtype |-> SubSeq(c, from, from + w - 1), data |-> data]
        ELSE [matched |-> FALSE, subtype |-> <<>>, data |-> <<>>]

TextPart(text) == [kind |-> "text", text |-> text, mimeType |-> <<>>, data |-> <<>>]
ImagePart(subtype, data) ==
    [kind |-> "inlineData", text |-> <<>>,
     mimeType |-> <<"i", "m", "a", "g", "e", "/">> \o subtype, data |-> data]

\* detectedContentType once the content is final: an image data URI gets
\* the tag image when no tag is set
DetectFromContent(c, d) == IF ~Truthy(d) /\ StartsWith(c, DataImage) THEN "image" ELSE d

\* isImage
IsImage(c) == StartsWith(c, DataImage)

\* promptText of the request r with content c (resolved, when it was a
\* link) and detected content type d
PromptText(r, c, d) ==
    IF UsesCustomPrompt(r.customPrompt)
    THEN CustomPromptText(r.customPrompt, r.task, c, IsImage(c), d)
    ELSE generateDefaultPrompt(r.task, c, IsImage(c), d)

\* the parts of a handler that sends the instruction text alone
PartsTextOnly(r, c, d) == <<TextPart(PromptText(r, c, d))>>

\* parts chosen by the tag: the inline image only for the tag image
PartsByTag(r, c, d) ==
    IF d = "image" /\ IsImage(c)
    THEN LET matches == ParseDataUri(c)
         IN  <<TextPart(PromptText(r, c, d)), ImagePart(matches.subtype, matches.data)>>
    ELSE <<TextPart(PromptText(r, c, d))>>

\* parts of the model call: the text alone, or the text and the inline image
Parts(r, c, d) ==
    IF IsImage(c)
    THEN LET matches == ParseDataUri(c)
         IN  <<TextPart(PromptText(r, c, d)), ImagePart(matches.subtype, matches.data)>>
    ELSE <<TextPart(PromptText(r, c, d))>>

----------------------------------------------------------------------------
(* POST /api/analyze *)

\* bound of the request templates: line feeds between heading, token and
\* the next heading
MaxGap == 1

RECURSIVE Repeat(_, _)
Repeat(s, n) == IF n = 0 THEN <<>> ELSE s \o Repeat(s, n - 1)

Template(h, g1, g2, w) ==
    TokTask \o <<NL>> \o h \o Repeat(<<NL>>, g1) \o TokCriteria \o Repeat(<<NL>>, g2)
        \o w \o <<NL>> \o TokContent
\* custom prompts: a task line, a criteria heading, the criteria token, a
\* student-work heading and the content token, with 0..MaxGap line feeds
\* after the heading and after the token
CustomPrompts ==
    {Undefined, <<" ", NL>>}
        \cup {Template(h, g1, g2, w) :
                h \in {<<>>, CriteriaHeading, <<"-", " ", "E", "V", "A", "L", "U", "A", "T",
                        "I", "O", "N", " ", "C", "R", "I", "T", "E", "R", "I", "A", ":">>},
                        g1 \in 0..MaxGap, g2 \in 0..MaxGap, w \in {WorkHeading, <<"-", " ", "S",
                        "T", "U", "D", "E", "N", "T", " ", "W", "O", "R", "K", ":">>}}

RequestContentTypes == {"undefined", "pdf"}

PngUri == DataImageSlash \o <<"p", "n", "g">> \o Base64Mark \o <<"Q", "U", "J", "D">>
SlidesUrl == Https \o Host \o PresentationD \o <<"p", "1">> \o EditTail
Contents ==
    {Undefined, <<>>,
     <<"G", "r", "e", "a", "t", " ", "w", "o", "r", "k">>,
     PngUri,
     DataImageSlash \o <<"p", "n", "g">> \o Base64Mark,           \* no payload
     DataImage \o <<"r", "y">>,                                   \* the prefix alone
     (Https \o Host \o DocumentD \o <<"a", "Z", "-", "_", "9">> \o EditTail),
     SlidesUrl,
     Https \o Host \o <<"/", "s", "p", "r", "e", "a", "d", "s", "h", "e", "e", "t", "s", "/",
             "d", "/">> \o <<"s", "1">>, \* neither shape
     Https \o Host \o DocumentD \o <<"/", "x">>,                   \* no ID after d/
     SlidesUrl \o <<"?", "u", "=">> \o DocumentD \o <<"d", "2">>,  \* both shapes
     Https \o Host \o PresentationSub \o <<"x">> \o DocumentSub}

HeadingsText == WorkHeading \o <<NL>> \o CriteriaHeading \o <<NL, NL>> \o TokCriteria


\* req.body: every combination of the plain values, and the combinations of
\* the texts and custom prompts above
PlainRequests ==
    [task : {Undefined, <<>>, <<"E", "s", "s", "a", "y", " ", "1">>}, content : Contents,
            contentType : RequestContentTypes,
     customPrompt : CustomPrompts, criteria : {Undefined, <<>>, <<"c", "l", "a", "r", "i", "t",
             "y">>}]
\* custom prompts with each token twice, with no content token, with no
\* student-work heading, and with the content token before the heading
\* task and content texts that hold replacement patterns, the tokens, the
\* headings and the criteria token
SubstRequests ==
    [task : {<<"a", "$", "&", "b">>, <<"$", "1">>, <<"$", "$">>, <<"$", Apostrophe>>, <<"$",
            Backtick>>, TokContent, TokTask, HeadingsText}, content : ({<<"W", "$", "&">>,
            <<"$", "1">>, TokTask, TokContent, HeadingsText, PngUri, PngUri \o <<NL>>}),
            contentType : RequestContentTypes,
     customPrompt : ({TokTask \o <<"|">> \o TokTask \o <<NL>> \o WorkHeading \o <<NL>>
             \o TokContent \o TokContent, <<"G", "r", "a", "d", "e", " ">> \o TokTask, TokTask
             \o <<":">> \o TokContent, TokContent \o <<NL>> \o WorkHeading \o <<NL>>
             \o TokTask}), criteria : {Undefined}]
\* req.body of the requests above, and of requests that carry each other
\* content-type tag, or the empty string, with every kind of content
Requests ==
    PlainRequests \cup SubstRequests
        \cup [task : {<<"E", "s", "s", "a", "y", " ", "1">>},
              content : Contents \ {Undefined, <<>>},
              contentType : {"", "image", "google-docs", "google-slides"},
              customPrompt : {Undefined}, criteria : {Undefined}]

\* what an export fetch can do: a success with a body, a non-success status,
\* or a rejection
ExportOutcomes ==
    {[kind |-> "ok", status |-> <<"2", "0", "0">>, statusText |-> <<"O", "K">>, body |-> b] :
        b \in {<<>>, <<"d", "o", "c", " ", "t", "e", "x", "t">>, PngUri}}
    \cup {[kind |-> "status", status |-> <<"4", "0", "4">>,
           statusText |-> <<"N", "o", "t", " ", "F", "o", "u", "n", "d">>, body |-> <<>>],
          [kind |-> "status", status |-> <<"4", "0", "3">>,
           statusText |-> <<"F", "o", "r", "b", "i", "d", "d", "e", "n">>, body |-> <<>>],
          [kind |-> "reject", status |-> <<>>, statusText |-> <<>>, body |-> <<>>]}

\* what model.generateContent can do: a feedback text, or a throw with a message
ModelOutcomes ==
    {[kind |-> "ok", text |-> <<"f", "e", "e", "d", "b", "a", "c", "k">>, message |-> <<>>]}
    \cup {[kind |-> "throws", text |-> <<>>, message |-> m] :
            m \in {Undefined, <<>>, <<"q", "u", "o", "t", "a">>,
                   <<"b", "a", "d", " ">> \o ApiKeyWords, ApiKeyUpper \o <<"_", "I", "N", "V",
                           "A", "L", "I", "D">>}}

Answer(status, feedback, error) ==
    [sent |-> TRUE, status |-> status, feedback |-> feedback, error |-> error]

\* the handler's catch around fetchGoogleDocsContent: 400 with the message
\* of the error the resolver rejected with
LinkFailure(error) == Answer(400, <<>>, <<"F", "a", "i", "l", "e", "d", " ", "t", "o", " ", "f",
        "e", "t", "c", "h", " ", "G", "o", "o", "g", "l", "e", " ", "D", "o", "c", "s", "/",
        "S", "l", "i", "d", "e", "s", " ", "c", "o", "n", "t", "e", "n", "t", ":", " ">>
        \o error.message)

\* an outer catch without the API-key case
ModelFailureGenericOnly(message) ==
    Answer(500, <<>>, MsgGenerate \o (IF Falsy(message) THEN MsgUnknown ELSE message))

\* the handler's outer catch: the API-key message, or the generic one
ModelFailure(message) ==
    IF ~Falsy(message) /\ (Includes(message, ApiKeyUpper) \/ Includes(message, ApiKeyWords))
    THEN Answer(500, <<>>, MsgApiKey)
    ELSE Answer(500, <<>>, MsgGenerate \o (IF Falsy(message) THEN MsgUnknown ELSE message))

\* a link branch that looks for '/document/' first
DetectFromUrlDocumentFirst(contentType, url) ==
    IF Truthy(contentType) THEN contentType
    ELSE IF Includes(url, DocumentSub) THEN "google-docs"
    ELSE IF Includes(url, PresentationSub) THEN "google-slides"
    ELSE contentType

\* detectedContentType after the link branch looked at the URL
DetectFromUrl(contentType, url) ==
    IF Truthy(contentType) THEN contentType
    ELSE IF Includes(url, PresentationSub) THEN "google-slides"
    ELSE IF Includes(url, DocumentSub) THEN "google-docs"
    ELSE contentType

\* the handler resolves no link: it stops with the answer a
Respond(a) ==
    /\ aRes' = a
    /\ apc' = "done"
    /\ UNCHANGED <<net, genCalls>>

\* an image whose data URI is taken as parsed whatever it is
InvalidImageNever(c) == FALSE

\* isImage and content.match(...) is null: the handler answers 400
InvalidImage(c) == IsImage(c) /\ ~ParseDataUri(c).matched

\* the handler of request r, from the content-type detection on, with
\* content c and detected type d: 400 for an image that does not parse, or
\* the start of the model call
ComposeAndCall(r, c, d) ==
    /\ dtype' = DetectFromContent(c, d)
    /\ content' = c
    /\ IF InvalidImage(c)
       THEN /\ Respond(Answer(400, <<>>, MsgInvalidImage))
            /\ open' = open - (IF apc = "idle" THEN 0 ELSE 1)
       ELSE /\ net' = Append(net, [kind |-> "generate",
                                   parts |-> Parts(r, c, DetectFromContent(c, d))])
            /\ genCalls' = genCalls + 1
            /\ open' = open - (IF apc = "idle" THEN 0 ELSE 1) + 1
            /\ apc' = "model"
            /\ aRes' = aRes

\* the resolver fails with the error e thrown in its try block
ResolverFails(e) ==
    /\ resolverErr' = [thrown |-> e, rejected |-> ResolverCatch(e)]
    /\ resolved' = "failed"
    /\ Respond(LinkFailure(ResolverCatch(e)))

\* !task || !content, with task only
MissingFieldsTaskOnly(r) == Falsy(r.task)

\* !task || !content
MissingFields(r) == Falsy(r.task) \/ Falsy(r.content)

\* new Error('Invalid Google Docs or Slides URL format')
\* a request arrives: validation, and for a link the start of the first
\* export fetch; otherwise the handler runs on to the model call
AnalyzeRequest ==
    /\ UNCHANGED uiVars
    /\ apc = "idle"
    /\ \E r \in Requests :
        /\ req' = r
        /\ IF MissingFields(r)
           THEN /\ Respond(Answer(400, <<>>, <<"M", "i", "s", "s", "i", "n", "g", " ", "r", "e",
                   "q", "u", "i", "r", "e", "d", " ", "f", "i", "e", "l", "d", "s", ":", " ",
                   "t", "a", "s", "k", " ", "a", "n", "d", " ", "c", "o", "n", "t", "e", "n",
                   "t", " ", "a", "r", "e", " ", "r", "e", "q", "u", "i", "r", "e", "d">>))
                /\ UNCHANGED <<content, dtype, docInfo, resp1, settled, open, resolverErr,
                        resolved>>
           ELSE IF Includes(r.content, Host)
           THEN /\ dtype' = DetectFromUrl(r.contentType, r.content)
                /\ content' = r.content
                /\ docInfo' = extractGoogleDocId(r.content)
                /\ IF ~docInfo'.found
                   THEN /\ ResolverFails([kind |-> "invalidUrl", message |-> MsgInvalidUrl])
                        /\ UNCHANGED <<resp1, settled, open>>
                   ELSE /\ net' = Append(net, ExportCall(docInfo', "txt"))
                        /\ open' = open + 1
                        /\ resolved' = "pending"
                        /\ apc' = "fetch1"
                        /\ UNCHANGED <<resp1, settled, resolverErr, aRes, genCalls>>
           ELSE /\ ComposeAndCall(r, r.content, r.contentType)
                /\ UNCHANGED <<docInfo, resp1, settled, resolverErr, resolved>>
    /\ UNCHANGED <<upVars, atVars, express>>

\* express.json(): a body that does not parse, or is over the parser's limit,
\* is passed to next() as an error with status 400 or 413; the route handler
\* does not run
AnalyzeBodyRejected ==
    /\ UNCHANGED uiVars
    /\ apc = "idle"
    /\ \E e \in {[status |-> 400, cause |-> "entity.parse.failed"],
                 [status |-> 413, cause |-> "entity.too.large"]} :
          express' = ExpressAnswer(e.status, e.cause)
    /\ apc' = "rejected"
    /\ UNCHANGED <<req, content, dtype, docInfo, resp1, net, settled, open, resolverErr,
                   resolved, aRes, genCalls, upVars, atVars>>

\* the fallback of every kind of link
RetriesPlainAnyKind(info, response) == response.kind = "status"

\* !response.ok && docInfo.type === 'document': the format=plain fetch is made
RetriesPlain(info, response) == response.kind = "status" /\ info.type = "document"

\* the first export fetch settles
ExportSettles1 ==
    /\ UNCHANGED uiVars
    /\ apc = "fetch1"
    /\ \E o \in ExportOutcomes :
        /\ settled' = Append(settled, o)
        /\ resp1' = o
        /\ IF o.kind = "reject"
           THEN /\ ResolverFails(NetworkError)
                /\ open' = open - 1
                /\ UNCHANGED <<content, dtype>>
           ELSE IF RetriesPlain(docInfo, o)
           THEN /\ net' = Append(net, ExportCall(docInfo, "plain"))
                /\ apc' = "fetch2"
                /\ UNCHANGED <<open, content, dtype, resolverErr, resolved, aRes, genCalls>>
           ELSE IF o.kind = "status"
           THEN /\ ResolverFails(FetchFailedError(docInfo, o))
                /\ open' = open - 1
                /\ UNCHANGED <<content, dtype>>
           ELSE /\ resolved' = "ok"
                /\ ComposeAndCall(req, o.body, dtype)
                /\ UNCHANGED resolverErr
    /\ UNCHANGED <<req, docInfo>>
    /\ UNCHANGED <<upVars, atVars, express>>

\* the second export fetch (format=plain) settles
ExportSettles2 ==
    /\ UNCHANGED uiVars
    /\ apc = "fetch2"
    /\ \E o \in ExportOutcomes :
        /\ settled' = Append(settled, o)
        /\ IF o.kind = "reject"
           THEN /\ ResolverFails(NetworkError)
                /\ open' = open - 1
                /\ UNCHANGED <<content, dtype>>
           ELSE IF o.kind = "status"
           THEN /\ ResolverFails(FetchFailedError(docInfo, resp1))
                /\ open' = open - 1
                /\ UNCHANGED <<content, dtype>>
           ELSE /\ resolved' = "ok"
                /\ ComposeAndCall(req, o.body, dtype)
                /\ UNCHANGED resolverErr
    /\ UNCHANGED <<req, docInfo, resp1>>
    /\ UNCHANGED <<upVars, atVars, express>>

\* the model call settles: the feedback, or the outer catch
ModelSettles ==
    /\ UNCHANGED uiVars
    /\ apc = "model"
    /\ \E o \in ModelOutcomes :
        /\ settled' = Append(settled, o)
        /\ aRes' = IF o.kind = "ok" THEN Answer(200, o.text, <<>>) ELSE ModelFailure(o.message)
    /\ open' = open - 1
    /\ apc' = "done"
    /\ UNCHANGED <<req, content, dtype, docInfo, resp1, net, resolverErr, resolved, genCalls>>
    /\ UNCHANGED <<upVars, atVars, express>>

----------------------------------------------------------------------------
(* GET /api/airtable/homeworks *)

MaxPages == 3

\* the paths the UI requests, and the one for which the server has a route
AirtablePaths == {"homeworks", "profiles"}
Served(path) == path = "homeworks"

\* records of the provider: with both fields, and with an empty name and no
\* details field
FullRecord ==
    [id |-> "rec1", fields |-> [Homework_name |-> "HW 1",
            Homework_details |-> "Write an essay"]]
\* the element that concat(undefined) adds to allRecords
NoRecord ==
    [id |-> "undefined", fields |-> [Homework_name |-> "undefined",
            Homework_details |-> "undefined"]]

\* data.records of a page; <<NoRecord>> stands for a page without the field
\* data.offset of a page; "undefined" when the page is the last one
\* what a provider fetch can do: a page, a body that is not JSON, a
\* non-success status, a non-success status whose body cannot be read
\* (response.text() rejects), or a rejection
PageOutcomes ==
    {[kind |-> "ok", status |-> 200, statusText |-> "OK", records |-> r, offset |-> o] :
        r \in {<<>>, <<FullRecord>>, <<[id |-> "rec2", fields |-> [Homework_name |-> "",
                Homework_details |-> "undefined"]], FullRecord>>, <<NoRecord>>},
                o \in {"undefined", "o1", "o2"}}
    \cup {[kind |-> "badjson", status |-> 200, statusText |-> "OK",
           records |-> <<>>, offset |-> "undefined"],
          [kind |-> "status", status |-> 401, statusText |-> "Unauthorized",
           records |-> <<>>, offset |-> "undefined"],
          [kind |-> "status", status |-> 429, statusText |-> "Too Many Requests",
           records |-> <<>>, offset |-> "undefined"],
          [kind |-> "nobody", status |-> 401, statusText |-> "Unauthorized",
           records |-> <<>>, offset |-> "undefined"],
          [kind |-> "reject", status |-> 0, statusText |-> "",
           records |-> <<>>, offset |-> "undefined"]}

NoList == [sent |-> FALSE, status |-> 0, json |-> FALSE, homeworks |-> <<>>, error |-> <<>>]
ListAnswer(status, homeworks, error) ==
    [sent |-> TRUE, status |-> status, json |-> TRUE, homeworks |-> homeworks, error |-> error]

MsgAirtableConfig ==
    <<"Airtable configuration is missing. Please set AIRTABLE_API_KEY and AIRTABLE_BASE_ID in .env file.">>
MsgAirtableStatus(statusText) == <<"Failed to fetch from Airtable: ", statusText>>
MsgHomeworks(message) == <<"Failed to fetch homeworks: ", message>>

\* a provider fetch that never passes an offset
PageCallNoOffset(off) == [kind |-> "airtable", table |-> "Homework_database", query |-> ""]

\* the provider fetch for the page after the given offset (null for the first)
PageCall(off) ==
    [kind |-> "airtable", table |-> "Homework_database",
     query |-> IF off = "null" THEN "" ELSE "?offset=" \o off]

\* value || fallback, for a field of a record
OrElse(value, fallback) == IF value \in {"undefined", ""} THEN fallback ELSE value

\* allRecords.map(...): a record becomes {id, name, details}
ToHomework(record) ==
    [id |-> record.id,
     name |-> OrElse(record.fields.Homework_name, "Untitled"),
     details |-> OrElse(record.fields.Homework_details, "")]

\* the handler after its loop: the list, or the catch block when an element
\* of allRecords is undefined
AirtableFinish(records) ==
    IF \E i \in 1..Len(records) : records[i] = NoRecord
    THEN ListAnswer(500, <<>>,
            MsgHomeworks("Cannot read properties of undefined (reading 'id')"))
    ELSE ListAnswer(200, [i \in 1..Len(records) |-> ToHomework(records[i])], <<>>)


\* !AIRTABLE_API_KEY || !AIRTABLE_BASE_ID
CredentialsMissing(c) == ~c.apiKey \/ ~c.baseId

\* a GET request arrives: no route, or the handler up to its first fetch
AirtableRequest ==
    /\ UNCHANGED uiVars
    /\ tpc = "idle"
    /\ \E path \in AirtablePaths :
        /\ route' = path
        /\ IF ~Served(path)
           THEN /\ express' = ExpressAnswer(404, "no route")
                /\ tpc' = "unrouted"
                /\ UNCHANGED <<tNet, tRes>>
           ELSE IF CredentialsMissing(creds)
           THEN /\ tRes' = ListAnswer(500, <<>>, MsgAirtableConfig)
                /\ tpc' = "done"
                /\ UNCHANGED <<tNet, express>>
           ELSE /\ tNet' = Append(tNet, PageCall(offset))
                /\ tpc' = "fetching"
                /\ UNCHANGED <<tRes, express>>
    /\ UNCHANGED <<creds, allRecords, offset, tPages, upVars, genCalls, anVars>>

\* the fetch of a page settles: the next page is asked for, or the handler
\* answers
PageSettles ==
    /\ UNCHANGED uiVars
    /\ tpc = "fetching"
    /\ \E o \in PageOutcomes :
        /\ (Len(tNet) >= MaxPages) => o.offset = "undefined"
        /\ tPages' = Append(tPages, o)
        /\ IF o.kind = "reject"
           THEN /\ tRes' = ListAnswer(500, <<>>, MsgHomeworks("fetch failed"))
                /\ tpc' = "done"
                /\ UNCHANGED <<allRecords, offset, tNet>>
           ELSE IF o.kind = "status"
           THEN /\ tRes' = ListAnswer(o.status, <<>>, MsgAirtableStatus(o.statusText))
                /\ tpc' = "done"
                /\ UNCHANGED <<allRecords, offset, tNet>>
           ELSE IF o.kind = "nobody"
           THEN /\ tRes' = ListAnswer(500, <<>>, MsgHomeworks("terminated"))
                /\ tpc' = "done"
                /\ UNCHANGED <<allRecords, offset, tNet>>
           ELSE IF o.kind = "badjson"
           THEN /\ tRes' = ListAnswer(500, <<>>,
                   MsgHomeworks("Unexpected token < in JSON at position 0"))
                /\ tpc' = "done"
                /\ UNCHANGED <<allRecords, offset, tNet>>
           ELSE /\ allRecords' = allRecords \o o.records
                /\ offset' = OrElse(o.offset, "null")
                /\ IF offset' # "null"
                   THEN /\ tNet' = Append(tNet, PageCall(offset'))
                        /\ UNCHANGED <<tpc, tRes>>
                   ELSE /\ tRes' = AirtableFinish(allRecords')
                        /\ tpc' = "done"
                        /\ UNCHANGED tNet
    /\ UNCHANGED <<route, creds, express, upVars, genCalls, anVars>>

AirtableIdle(pc) ==
    /\ tpc = pc
    /\ route = ""
    /\ allRecords = <<>>
    /\ offset = "null"
    /\ tNet = <<>>
    /\ tPages = <<>>
    /\ tRes = NoList
    /\ express = NoExpress

----------------------------------------------------------------------------
(* The page (src/src/App.jsx): the file and link inputs and handleSubmit *)

\* useState(null)
Null == <<"null">>

\* String.prototype.endsWith
EndsWith(s, p) == Len(p) <= Len(s) /\ SubSeq(s, Len(s) - Len(p) + 1, Len(s)) = p

\* contentType of handleSubmit: from the file's name, or from the link
UiContentType(f, link) ==
    IF f # Null
    THEN (IF EndsWith(ToLowerCase(f), ExtPdf) THEN "pdf"
          ELSE IF \E ext \in {ExtPng, ExtJpg, ExtJpeg} : EndsWith(ToLowerCase(f), ext)
          THEN "image"
          ELSE "null")
    ELSE IF Includes(link, PresentationSub) THEN "google-slides"
    ELSE IF Includes(link, DocumentSub) THEN "google-docs"
    ELSE "null"

\* a request of handleSubmit: the upload of the file, or the analyze request
\* with its JSON body
UiCall(kind, task, c, contentType) ==
    [kind |-> kind, task |-> task, content |-> c, contentType |-> contentType,
     file |-> file, link |-> googleDocsLink]

\* what a request of the page can do: a success with its field (content, or
\* feedback), a non-success status with a JSON error, with a JSON body
\* without error, or with a body that is not JSON, or a rejection
UiOutcomes ==
    {[kind |-> "ok", value |-> v, error |-> ""] :
        v \in {<<>>, <<"t", "e", "x", "t">>, PngUri}}
    \cup {[kind |-> "status", value |-> <<>>, error |-> e] :
            e \in {"Failed to process file", "", "not json"}}
    \cup {[kind |-> "reject", value |-> <<>>, error |-> "Failed to fetch"]}

\* the message of the Error thrown for a response that is not ok
ErrorOf(o, notJson, noError) ==
    IF o.kind = "reject" THEN o.error
    ELSE IF o.error = "not json" THEN notJson
    ELSE IF o.error = "" THEN noError
    ELSE o.error

\* a handler whose finally block is missing: loading stays set
FinishNoFinally(err, newFeedback) ==
    /\ uiError' = err
    /\ uiFeedback' = newFeedback
    /\ loading' = (err # "")
    /\ uiPc' = "idle"

\* the end of handleSubmit: setFeedback or the catch block, then finally
Finish(err, newFeedback) ==
    /\ uiError' = err
    /\ uiFeedback' = newFeedback
    /\ loading' = FALSE
    /\ uiPc' = "idle"

\* handleSubmit from the validation of the assignment text on, after the
\* requests calls, with content c and content type ct
ValidateAndAnalyze(calls, c, ct) ==
    IF ~NonBlank(assignmentText)
    THEN Finish("Assignment text is required", <<>>) /\ uiNet' = calls
    ELSE /\ uiNet' = Append(calls, UiCall("analyze", assignmentText, c, ct))
         /\ uiPc' = "analyze"
         /\ loading' = TRUE
         /\ uiError' = ""
         /\ uiFeedback' = <<>>

\* the file input: disabled={loading || !!googleDocsLink}, and handleFileChange
FileInput ==
    /\ ~(loading \/ googleDocsLink # <<>>)
    /\ \E selectedFile \in {Null, <<"a", ".", "p", "d", "f">>, <<"B", ".", "P", "N", "G">>,
                              <<"c", ".", "t", "x", "t">>} :
          IF selectedFile # Null
          THEN file' = selectedFile /\ googleDocsLink' = <<>>
          ELSE UNCHANGED <<file, googleDocsLink>>
    /\ UNCHANGED <<assignmentText, loading, uiError, uiFeedback, uiPc, uiNet, uiDone,
            submitTag>>
    /\ UNCHANGED <<upVars, genCalls, anVars, atVars, express>>

\* a link input that is never disabled for a file and leaves the file
LinkInputKeepsFile ==
    /\ ~loading
    /\ \E value \in {<<>>, <<"x">>, SlidesUrl} : googleDocsLink' = value
    /\ UNCHANGED <<file, assignmentText, loading, uiError, uiFeedback, uiPc, uiNet, uiDone,
                   submitTag>>
    /\ UNCHANGED <<upVars, genCalls, anVars, atVars, express>>

\* the link input: disabled={loading || !!file}, and its onChange
LinkInput ==
    /\ ~(loading \/ file # Null)
    /\ \E value \in {<<>>, <<"x">>, SlidesUrl,
                      Https \o Host \o DocumentD \o <<"d", "1">> \o EditTail} :
          /\ googleDocsLink' = value
          /\ file' = IF value # <<>> THEN Null ELSE file
    /\ UNCHANGED <<assignmentText, loading, uiError, uiFeedback, uiPc, uiNet, uiDone,
            submitTag>>
    /\ UNCHANGED <<upVars, genCalls, anVars, atVars, express>>

\* the assignment text area: disabled={loading}
AssignmentInput ==
    /\ ~loading
    /\ \E value \in {<<>>, <<" ">>, <<"E", "s", "s", "a", "y", " ", "1">>} :
          assignmentText' = value
    /\ UNCHANGED <<file, googleDocsLink, loading, uiError, uiFeedback, uiPc, uiNet, uiDone,
                   submitTag>>
    /\ UNCHANGED <<upVars, genCalls, anVars, atVars, express>>

\* the submit button (disabled={loading}) starts handleSubmit, which runs to
\* its first await, or to its end when it makes no request
SubmitStart ==
    /\ ~loading
    /\ submitTag' = 1 - submitTag
    /\ uiDone' = <<>>
    /\ IF file # Null
       THEN /\ uiNet' = <<UiCall("upload", <<>>, <<>>, "null")>>
            /\ uiPc' = "upload"
            /\ loading' = TRUE
            /\ uiError' = ""
            /\ uiFeedback' = <<>>
       ELSE IF googleDocsLink # <<>>
       THEN ValidateAndAnalyze(<<>>, googleDocsLink, UiContentType(Null, googleDocsLink))
       ELSE /\ Finish("Please provide either a file or Google Docs link", <<>>)
            /\ uiNet' = <<>>
    /\ UNCHANGED <<file, googleDocsLink, assignmentText>>
    /\ UNCHANGED <<upVars, genCalls, anVars, atVars, express>>

\* the /api/upload request settles
UploadReturns ==
    /\ uiPc = "upload"
    /\ \E o \in UiOutcomes :
          /\ uiDone' = Append(uiDone, o.kind)
          /\ IF o.kind = "ok"
             THEN ValidateAndAnalyze(uiNet, o.value, UiContentType(file, <<>>))
             ELSE /\ Finish(ErrorOf(o, "Upload failed", "Failed to upload file"), <<>>)
                  /\ UNCHANGED uiNet
    /\ UNCHANGED <<file, googleDocsLink, assignmentText, submitTag>>
    /\ UNCHANGED <<upVars, genCalls, anVars, atVars, express>>

\* the /api/analyze request settles
AnalyzeReturns ==
    /\ uiPc = "analyze"
    /\ \E o \in UiOutcomes :
          /\ uiDone' = Append(uiDone, o.kind)
          /\ IF o.kind = "ok"
             THEN Finish("", o.value)
             ELSE Finish(ErrorOf(o, "Unknown error", "Server error: 500"), <<>>)
    /\ UNCHANGED <<file, googleDocsLink, assignmentText, uiNet, submitTag>>
    /\ UNCHANGED <<upVars, genCalls, anVars, atVars, express>>

UiIdle(pc) ==
    /\ uiPc = pc
    /\ file = Null
    /\ googleDocsLink = <<>>
    /\ assignmentText = <<>>
    /\ loading = FALSE
    /\ uiError = ""
    /\ uiFeedback = <<>>
    /\ uiNet = <<>>
    /\ uiDone = <<>>
    /\ submitTag = 0

UploadOff ==
    /\ upc = "off"
    /\ reqFile = NoFile
    /\ disk = {}
    /\ upEnv = [readThrows |-> FALSE, pdfThrows |-> FALSE, pdfText |-> <<>>,
                unlinkThrows |-> [k \in 1..2 |-> FALSE]]
    /\ upRes = NoRes
    /\ upLog = <<>>

AnalyzeIdle(pc) ==
    /\ apc = pc
    /\ req = [task |-> Undefined, content |-> Undefined, contentType |-> "undefined",
            customPrompt |-> Undefined, criteria |-> Undefined]
    /\ content = Undefined
    /\ dtype = "undefined"
    /\ docInfo = NoDoc
    /\ resp1 = [kind |-> "none", status |-> <<>>, statusText |-> <<>>, body |-> <<>>]
    /\ net = <<>>
    /\ settled = <<>>
    /\ open = 0
    /\ resolverErr = [thrown |-> NoError, rejected |-> NoError]
    /\ resolved = "none"
    /\ aRes = [sent |-> FALSE, status |-> 0, feedback |-> <<>>, error |-> <<>>]

AirtableOff == AirtableIdle("off") /\ creds = [apiKey |-> TRUE, baseId |-> TRUE]

InitAnalyze ==
    UploadOff /\ AnalyzeIdle("idle") /\ AirtableOff /\ UiIdle("off") /\ genCalls = 0
NextAnalyze ==
    AnalyzeBodyRejected \/ AnalyzeRequest \/ ExportSettles1 \/ ExportSettles2 \/ ModelSettles
SpecAnalyze == InitAnalyze /\ [][NextAnalyze]_vars

InitUpload ==
    UploadIdle /\ AnalyzeIdle("off") /\ AirtableOff /\ UiIdle("off") /\ genCalls = 0
NextUpload == UploadTooLarge \/ UploadReceive \/ UploadHandle
SpecUpload == InitUpload /\ [][NextUpload]_vars

----------------------------------------------------------------------------
(* /api/upload: properties *)

InUpLog(e) == \E i \in DOMAIN upLog : upLog[i] = e
TmpOnDisk == \E f \in disk : f.path = reqFile.path
ReadOrParseThrew == InUpLog("read:throws") \/ InUpLog("parse:throws")
LastUnlinkThrew == upLog # <<>> /\ upLog[Len(upLog)] = "unlink:throws"
PngData == DataColon \o MimePng \o Base64Mark
JpegData == DataColon \o MimeJpeg \o Base64Mark

\* the exit paths C1 names: PDF success, image success, unsupported
\* extension, an exception thrown while reading or parsing
C1_NamedExitPath ==
    \/ upRes.status = 200 /\ upRes.type \in {"text", "image"}
    \/ upRes.status = 400 /\ upRes.error = "Unsupported file type"
    \/ ReadOrParseThrew

\* C1 as stated: on each of the exit paths it names, the temporary file of a
\* request that received a file no longer exists when the response is sent.
C1_TmpGoneOnEveryExitPath ==
    (upRes.sent /\ reqFile.present /\ C1_NamedExitPath) => ~TmpOnDisk

\* C1 amended: when the response of a request that received a file is sent,
\* the temporary file no longer exists unless the handler's last unlinkSync
\* call itself threw (in the catch block that throw is swallowed).
C1_TmpGoneUnlessUnlinkThrew ==
    (upRes.sent /\ reqFile.present) => (~TmpOnDisk \/ LastUnlinkThrew)

\* C1 witness: a read or parse exception, answered 500, with the file cleaned up
C1_Witness ==
    /\ upRes.sent /\ reqFile.present /\ upRes.status = 500
    /\ ReadOrParseThrew /\ ~TmpOnDisk

\* C2 as stated: the data URI of an uploaded image carries the MIME type of
\* the uploaded file's extension: image/png for *.png, image/jpeg for *.jpg
\* and *.jpeg.
C2_MimeFollowsExtension ==
    (upRes.sent /\ upRes.type = "image") =>
        /\ fileExtension = ExtPng => StartsWith(upRes.content, PngData)
        /\ fileExtension \in {ExtJpg, ExtJpeg} => StartsWith(upRes.content, JpegData)

\* C3 as stated: 400 without a file, 400 for an extension other than
\* .pdf/.png/.jpg/.jpeg (compared case-insensitively), 500 when reading or
\* parsing the file throws, and the generative model is never invoked.
C3_UploadStatuses ==
    upRes.sent =>
        /\ ~reqFile.present => upRes.status = 400
        /\ (reqFile.present /\ fileExtension \notin {ExtPdf, ExtPng, ExtJpg, ExtJpeg})
              => upRes.status = 400
        /\ ReadOrParseThrew => upRes.status = 500
        /\ genCalls = 0


----------------------------------------------------------------------------
(* /api/analyze: properties *)


InitAirtable ==
    /\ UploadOff /\ AnalyzeIdle("off") /\ UiIdle("off") /\ genCalls = 0
    /\ AirtableIdle("idle")
    /\ creds \in [apiKey : BOOLEAN, baseId : BOOLEAN]
NextAirtable == AirtableRequest \/ PageSettles
SpecAirtable == InitAirtable /\ [][NextAirtable]_vars

InitUI == UploadOff /\ AnalyzeIdle("off") /\ AirtableOff /\ UiIdle("idle") /\ genCalls = 0
NextUI ==
    FileInput \/ LinkInput \/ AssignmentInput \/ SubmitStart \/ UploadReturns
        \/ AnalyzeReturns
SpecUI == InitUI /\ [][NextUI]_vars

Received == apc \notin {"idle", "off", "rejected"}
TaskOrContentMissing ==
    req.task \in {Undefined, <<>>} \/ req.content \in {Undefined, <<>>}
IsLinkRequest == Received /\ ~TaskOrContentMissing /\ Includes(req.content, Host)
Exports == SelectSeq(net, LAMBDA e : e.kind = "export")
Generates == SelectSeq(net, LAMBDA e : e.kind = "generate")
\* the outcomes of the export fetches that settled
ExportOutcomesSeen == SubSeq(settled, 1,
        IF Len(settled) < Len(Exports) THEN Len(settled) ELSE Len(Exports))
\* the instruction text of the model call
InstructionText == Generates[1].parts[1].text

\* C4: a request whose task or content is empty or missing is answered 400
\* with an error body, and no export fetch and no model call is made for it.
C4_MissingFieldsRejected ==
    (Received /\ TaskOrContentMissing) =>
        /\ aRes.sent /\ aRes.status = 400 /\ aRes.error # <<>>
        /\ net = <<>>
        /\ genCalls = 0

\* C4 witness: a request with a task and an empty content, answered 400
C4_Witness ==
    /\ Received /\ req.task \notin {Undefined, <<>>} /\ req.content = <<>>
    /\ aRes.sent /\ aRes.status = 400

\* url holds prefix followed by at least one ID character
HasIdAfter(url, prefix) ==
    \E i \in 1..Len(url) : MatchAt(url, i, prefix) /\ RunLen(url, i + Len(prefix), IdChars) >= 1
\* id is the maximal non-empty run of ID characters after an occurrence of prefix
IsIdAfter(url, prefix, id) ==
    /\ id # <<>>
    /\ \E i \in 1..Len(url) :
        /\ MatchAt(url, i, prefix)
        /\ id = SubSeq(url, i + Len(prefix),
                       i + Len(prefix) + RunLen(url, i + Len(prefix), IdChars) - 1)

\* C5 as stated: a link with /document/d/<ID> resolves to kind document, a
\* link with /presentation/d/<ID> to kind presentation, <ID> being the
\* maximal run of ID characters after d/; a link with neither shape makes
\* the resolver fail with the invalid-link-format error and no export fetch.
C5_LinkRecognition ==
    IsLinkRequest =>
        /\ HasIdAfter(req.content, DocumentD) =>
              /\ docInfo.found /\ docInfo.type = "document"
              /\ IsIdAfter(req.content, DocumentD, docInfo.id)
        /\ HasIdAfter(req.content, PresentationD) =>
              /\ docInfo.found /\ docInfo.type = "presentation"
              /\ IsIdAfter(req.content, PresentationD, docInfo.id)
        /\ (~HasIdAfter(req.content, DocumentD) /\ ~HasIdAfter(req.content, PresentationD)) =>
              /\ resolved = "failed"
              /\ Includes(resolverErr.rejected.message, MsgInvalidUrl)
              /\ Exports = <<>>

\* the body of the first export response that was a success
FirstOkBody ==
    LET ok == {k \in 1..Len(ExportOutcomesSeen) : ExportOutcomesSeen[k].kind = "ok"}
    IN  ExportOutcomesSeen[Min(ok)].body

\* what C6 says of the fetches made: one fetch for a presentation, with a
\* non-success status failing at once; for a document a format=plain fetch,
\* made once and only after the format=txt fetch returned a non-success
\* status; the result is the body of the first successful response
C6_FetchesMade ==
    docInfo.found =>
        /\ Len(Exports) >= 1 /\ Exports[1].format = "txt"
        /\ \A k \in 1..Len(Exports) : Exports[k].type = docInfo.type /\ Exports[k].id = docInfo.id
        /\ docInfo.type = "presentation" =>
              /\ Len(Exports) = 1
              /\ (Len(settled) >= 1 /\ settled[1].kind = "status") =>
                    (resolved = "failed" /\ aRes.sent)
        /\ docInfo.type = "document" =>
              /\ Len(Exports) <= 2
              /\ Len(Exports) = 2 <=> (Len(settled) >= 1 /\ settled[1].kind = "status")
              /\ Len(Exports) = 2 => Exports[2].format = "plain"
        /\ resolved = "ok" => content = FirstOkBody

C7_UnderlyingMessageInBody ==
    resolved = "failed" =>
        /\ aRes.sent /\ aRes.status = 400
        /\ Includes(aRes.error, resolverErr.thrown.message)

\* C8: at most three outbound calls, one after another: at most two export
\* fetches, only for content that holds the document host, then at most one
\* model call; the model call starts only after link resolution succeeded,
\* and is not made when validation, link resolution or image parsing fails.
C8_SequentialCalls ==
    /\ Len(net) <= 3 /\ Len(Exports) <= 2 /\ Len(Generates) <= 1
    /\ open \in {0, 1} /\ open = Len(net) - Len(settled)
    /\ Exports # <<>> => Includes(req.content, Host)
    /\ \A i \in 1..Len(net) : net[i].kind = "generate" => i = Len(net)
    /\ genCalls = Len(Generates)
    /\ Generates # <<>> =>
          /\ ~TaskOrContentMissing
          /\ Includes(req.content, Host) => resolved = "ok"
          /\ StartsWith(content, DataImage) => ParseDataUri(content).matched
    /\ (resolved = "failed" \/ (aRes.sent /\ aRes.status = 400)) => Generates = <<>>

\* C8 witness: two export fetches, then the model call
C8_Witness ==
    /\ Len(net) = 3 /\ net[1].kind = "export" /\ net[2].kind = "export"
    /\ net[3].kind = "generate" /\ aRes.sent /\ aRes.status = 200

\* C9 as stated: non-empty criteria appear in the instruction text: on the
\* custom path in place of every {{criteria}} token, on the default path
\* under their own heading.
C9_CriteriaInPrompt ==
    (Generates # <<>> /\ req.criteria \notin {Undefined, <<>>}) =>
        /\ Includes(InstructionText, req.criteria)
        /\ ~Includes(InstructionText, TokCriteria)
        /\ ~UsesCustomPrompt(req.customPrompt) => Includes(InstructionText, CriteriaWords)

\* the template has an EVALUATION CRITERIA heading over a {{criteria}} token
HeadingOverToken(t) ==
    \E i \in 1..Len(t) : MatchAt(t, i, CriteriaWords) /\ Includes(From(t, i), TokCriteria)

\* C10 as stated: with empty criteria, the prompt rendered from the default
\* template, or from a custom template with an EVALUATION CRITERIA heading
\* over a {{criteria}} token, holds no EVALUATION CRITERIA heading and no
\* {{criteria}} token.
C10_NoCriteriaHeading ==
    (/\ Generates # <<>>
     /\ req.criteria \in {Undefined, <<>>}
     /\ ~UsesCustomPrompt(req.customPrompt) \/ HeadingOverToken(req.customPrompt)) =>
        /\ ~Includes(InstructionText, CriteriaWords)
        /\ ~Includes(InstructionText, TokCriteria)

\* the model call was made with a prompt composed from the custom prompt
OnCustomPath == Generates # <<>> /\ UsesCustomPrompt(req.customPrompt)
OnDefaultPath == Generates # <<>> /\ ~UsesCustomPrompt(req.customPrompt)
\* t holds neither the task token nor the content token
TokenFree(t) == ~Includes(t, TokTask) /\ ~Includes(t, TokContent)
\* the custom prompt after criteria removal and note insertion, before the
\* task and the content are substituted
ProcessedTemplate == InsertNote(RemoveCriteria(req.customPrompt), ContentTypeNote(dtype))
\* what stands for the content in the instruction text
ContentInText == IF IsImage(content) THEN ImagePlaceholder ELSE content

\* C11 as stated: on the custom path, for a task and a text content that hold
\* neither token, the instruction text holds no {{task}} and no {{content}}
\* token: every occurrence of each token was replaced.
C11_NoTokenLeft ==
    (OnCustomPath /\ ~IsImage(content) /\ TokenFree(req.task) /\ TokenFree(content)) =>
        TokenFree(InstructionText)

\* p from index i on, with every {{task}} token replaced by task and every
\* {{content}} token by c, both taken as they are and not scanned again
RECURSIVE Verbatim(_, _, _, _)
Verbatim(p, i, task, c) ==
    LET at == {j \in i..Len(p) : MatchAt(p, j, TokTask) \/ MatchAt(p, j, TokContent)}
    IN  IF at = {} THEN From(p, i)
        ELSE LET j == CHOOSE j \in at : \A k \in at : j <= k
             IN  SubSeq(p, i, j - 1)
                   \o (IF MatchAt(p, j, TokTask)
                       THEN task \o Verbatim(p, j + Len(TokTask), task, c)
                       ELSE c \o Verbatim(p, j + Len(TokContent), task, c))

\* C12 as stated: on the custom path each {{task}} token is replaced by the
\* task text verbatim and each {{content}} token by the text content verbatim
\* (by the image placeholder sentence for an image), whatever '$' sequences
\* or literal tokens the task and the content hold.
C12_VerbatimSubstitution ==
    OnCustomPath =>
        InstructionText = Verbatim(ProcessedTemplate, 1, req.task, ContentInText)
\* the lengths k for which c is data:image/ followed by k word characters,
\* ;base64, and a non-empty rest without line terminators
StrictSplits(c) ==
    LET h == Len(DataImageSlash)
    IN  {k \in 1..(Len(c) - h) :
            /\ StartsWith(c, DataImageSlash)
            /\ \A i \in 1..k : c[h + i] \in WordChars
            /\ MatchAt(c, h + k + 1, Base64Mark)
            /\ Len(c) > h + k + Len(Base64Mark)
            /\ \A i \in (h + k + Len(Base64Mark) + 1)..Len(c) : c[i] \notin LineTerminators}
MatchesStrictPattern(c) == StrictSplits(c) # {}
SubtypeOf(c) ==
    LET k == CHOOSE k \in StrictSplits(c) : TRUE
    IN  SubSeq(c, Len(DataImageSlash) + 1, Len(DataImageSlash) + k)
DataOf(c) ==
    LET k == CHOOSE k \in StrictSplits(c) : TRUE
    IN  From(c, Len(DataImageSlash) + k + Len(Base64Mark) + 1)

\* the parts of the model call: two parts, the text and the inline image of
\* the data URI, for content that matches the pattern, one text part otherwise
C13_PartsOfPayload ==
    LET parts == Generates[1].parts
    IN  IF IsImage(content) /\ MatchesStrictPattern(content)
        THEN /\ Len(parts) = 2
             /\ parts[1].kind = "text" /\ parts[2].kind = "inlineData"
             /\ parts[2].mimeType = <<"i", "m", "a", "g", "e", "/">> \o SubtypeOf(content)
             /\ parts[2].data = DataOf(content)
        ELSE Len(parts) = 1 /\ parts[1].kind = "text"

\* C13 as stated: the payload has the text and the inline image for content
\* that matches data:image/<subtype>;base64,<data>, one text part otherwise;
\* for an image the instruction text carries the image placeholder sentence
\* and never the raw base64 data.
C13_ImagePayloadAndPlaceholder ==
    Generates # <<>> =>
        /\ C13_PartsOfPayload
        /\ IsImage(content) =>
              /\ Includes(InstructionText, ImagePlaceholder)
              /\ ~Includes(InstructionText, DataOf(content))

\* C13 amended: the payload has the text and the inline image for content
\* that matches data:image/<subtype>;base64,<data>, one text part otherwise;
\* for an image the instruction text carries the image placeholder sentence
\* whenever the default template is used or the custom template holds a
\* {{content}} token, and the data of the URI is never put into the text (it
\* is there only if the task text itself holds it).
C13_PlaceholderWhereContentStands ==
    Generates # <<>> =>
        /\ C13_PartsOfPayload
        /\ IsImage(content) =>
              /\ (OnDefaultPath \/ Includes(req.customPrompt, TokContent))
                    => Includes(InstructionText, ImagePlaceholder)
              /\ ~Includes(req.task, DataOf(content)) =>
                    ~Includes(InstructionText, DataOf(content))

\* C13 witness: an image sent with a custom prompt that holds {{content}}
C13_Witness ==
    /\ OnCustomPath /\ IsImage(content) /\ Len(Generates[1].parts) = 2
    /\ Includes(req.customPrompt, TokContent)
    /\ Includes(InstructionText, ImagePlaceholder)
\* C14: content that starts with data:image and does not match
\* data:image/<word characters>;base64,<non-empty data> is answered 400
\* 'Invalid image format', and the model is not called.
C14_InvalidImageRejected ==
    (IsImage(content) /\ ~MatchesStrictPattern(content)) =>
        /\ aRes.sent /\ aRes.status = 400 /\ aRes.error = MsgInvalidImage
        /\ genCalls = 0 /\ Generates = <<>>

\* C14 witness: a data URI with a subtype and no payload, answered 400
C14_Witness ==
    /\ content = DataImageSlash \o <<"p", "n", "g">> \o Base64Mark
    /\ aRes.sent /\ aRes.status = 400 /\ aRes.error = MsgInvalidImage
\* the model call was made and threw; the message of what it threw
ModelThrew == apc = "done" /\ Generates # <<>> /\ settled[Len(settled)].kind = "throws"
ThrownMessage == settled[Len(settled)].message
MentionsApiKey(m) ==
    m # Undefined /\ (Includes(m, ApiKeyUpper) \/ Includes(m, ApiKeyWords))

\* C15: an error of the model call whose message mentions the API key is
\* answered 500 with the fixed configuration message, which holds nothing of
\* the provider's message; every other error of the model call is answered
\* 500 with its message after 'Failed to generate feedback: ' ('Unknown
\* error' stands for a message that is missing or empty).
C15_FailureClassification ==
    ModelThrew =>
        /\ aRes.sent /\ aRes.status = 500 /\ aRes.feedback = <<>>
        /\ IF MentionsApiKey(ThrownMessage)
           THEN aRes.error = MsgApiKey /\ ~Includes(aRes.error, ThrownMessage)
           ELSE IF ThrownMessage \in {Undefined, <<>>}
           THEN aRes.error = MsgGenerate \o MsgUnknown
           ELSE aRes.error = MsgGenerate \o ThrownMessage

\* C15 witness: the model call threw an API_KEY_INVALID error, answered
\* with the fixed message
C15_Witness ==
    /\ ModelThrew /\ Includes(ThrownMessage, ApiKeyUpper)
    /\ aRes.sent /\ aRes.status = 500 /\ aRes.error = MsgApiKey
\* C16 as stated: GET /api/airtable/homeworks and GET /api/airtable/profiles
\* are both served: each is answered by the server's handler, with its list
\* on success, and with 500 and a configuration error, without a call of the
\* provider, when a credential is unset.
C16_BothListsServed ==
    (route \in AirtablePaths /\ tpc \in {"done", "unrouted"}) =>
        /\ tRes.sent /\ tRes.json /\ ~express.sent
        /\ (~creds.apiKey \/ ~creds.baseId) =>
              (tRes.status = 500 /\ tRes.error = MsgAirtableConfig /\ tNet = <<>>)
        /\ tRes.status = 200 => tRes.error = <<>>

\* C17 as stated: a request to /api/upload, /api/analyze or
\* /api/airtable/homeworks that has been dealt with was answered once, by
\* its handler, and every failure became a JSON {error: message} body with a
\* 4xx or 5xx status.
C17_AnsweredOnceAsJson ==
    /\ upc \in {"done", "rejected"} =>
          /\ upRes.sent /\ ~express.sent
          /\ upRes.status # 200 => (upRes.status \in 400..599 /\ upRes.error # "")
    /\ apc \in {"done", "rejected"} =>
          /\ aRes.sent /\ ~express.sent
          /\ aRes.status # 200 => (aRes.status \in 400..599 /\ aRes.error # <<>>)
    /\ (tpc = "done" /\ route = "homeworks") =>
          /\ tRes.sent /\ tRes.json /\ ~express.sent
          /\ tRes.status # 200 => (tRes.status \in 400..599 /\ tRes.error # <<>>)
\* the index of the first occurrence of w in p; 0 when there is none
FirstIndexOf(p, w) ==
    LET at == {j \in 1..Len(p) : MatchAt(p, j, w)}
    IN  IF at = {} THEN 0 ELSE CHOOSE j \in at : \A k \in at : j <= k
\* p with note put in immediately before index j
InsertBefore(p, j, note) == SubSeq(p, 1, j - 1) \o note \o From(p, j)
\* the note put in once: before the '### STUDENT WORK:' heading of p, or
\* else before its first {{content}} token
NoteBeforeHeadingOrToken(p, note) ==
    IF Includes(p, WorkHeading) THEN InsertBefore(p, FirstIndexOf(p, WorkHeading), note)
    ELSE IF Includes(p, TokContent) THEN InsertBefore(p, FirstIndexOf(p, TokContent), note)
    ELSE p
\* the substitution of the handler, applied to p
Substituted(p) ==
    ReplaceAll(ReplaceAll(p, ReLit(TokTask), req.task), ReLit(TokContent), ContentInText)

\* C18 as stated: on the custom path with a content-type tag, the note is
\* inserted once: immediately before the '### STUDENT WORK:' heading when
\* the template has it, and otherwise immediately before the {{content}}
\* token whenever the template has one, also when the template mentions
\* 'STUDENT WORK' without that heading.
C18_NoteBeforeHeadingOrToken ==
    (OnCustomPath /\ Truthy(dtype)) =>
        InstructionText =
            Substituted(NoteBeforeHeadingOrToken(RemoveCriteria(req.customPrompt),
                                                 ContentTypeNote(dtype)))
\* the custom prompt is missing, empty or made of white space
AbsentOrBlank(p) == p = Undefined \/ \A i \in 1..Len(p) : p[i] \in SpaceChars
\* the opening of the disclosure sentence, whatever format it names
NoteOpening == SubSeq(ContentTypeNote("pdf"), 1, 3)
\* the fixed text that opens the default template
DefaultOpening == SubSeq(generateDefaultPrompt(<<>>, <<>>, FALSE, "undefined"), 1, 1)

\* C19: a request without a custom prompt, or with a blank one, is composed
\* from the default template; there the disclosure note is present exactly
\* when a content-type tag is present (supplied or inferred), and then it
\* sits after the task text and immediately before the student-work section.
C19_DefaultPathNote ==
    (Generates # <<>> /\ AbsentOrBlank(req.customPrompt)) =>
        /\ StartsWith(InstructionText, DefaultOpening)
        /\ Truthy(dtype) <=> Includes(InstructionText, NoteOpening)
        /\ Truthy(dtype) =>
              Includes(InstructionText,
                       req.task \o ContentTypeNote(dtype) \o <<NL>> \o WorkHeading)
        /\ ~Truthy(dtype) =>
              Includes(InstructionText, req.task \o <<NL>> \o WorkHeading)

\* C19 witness: a blank custom prompt and a document link, composed from the
\* default template with the note for the inferred tag
C19_Witness ==
    /\ Generates # <<>> /\ req.customPrompt = <<" ", NL>>
    /\ req.contentType = "undefined" /\ dtype = "google-docs"
    /\ Includes(InstructionText, NoteOpening)
\* t holds no "$", so no replacement pattern
DollarFree(t) == \A i \in 1..Len(t) : t[i] # "$"

\* C20: on the custom path the criteria removal, the heading collapse and the
\* note insertion are done on the template, before the task and the content
\* are substituted: the instruction text is the processed template with the
\* task and the content put in as they are, also when they hold
\* '### STUDENT WORK:', '### EVALUATION CRITERIA:' or '{{criteria}}' (for
\* texts without '$' and without the {{task}} and {{content}} tokens).
C20_TemplateProcessedBeforeSubstitution ==
    (/\ OnCustomPath
     /\ DollarFree(req.task) /\ TokenFree(req.task)
     /\ DollarFree(ContentInText) /\ TokenFree(ContentInText)) =>
        InstructionText = Verbatim(ProcessedTemplate, 1, req.task, ContentInText)

\* C20 witness: a task that holds both headings and the criteria token,
\* substituted whole into a custom prompt that got the note
C20_Witness ==
    /\ OnCustomPath /\ req.task = HeadingsText /\ Truthy(dtype)
    /\ Includes(req.customPrompt, WorkHeading)
    /\ Includes(InstructionText, HeadingsText)
    /\ Includes(InstructionText, NoteOpening)

----------------------------------------------------------------------------
(* Content-type tag inference *)

\* the handler got past validation and link resolution: the tag inference
\* ran to its end
InferenceRan ==
    /\ Received /\ ~TaskOrContentMissing
    /\ apc \in {"model", "done"} /\ resolved \in {"none", "ok"}

\* the tag the request r is to get
TagFor(r) ==
    IF Truthy(r.contentType) THEN r.contentType
    ELSE IF Includes(r.content, Host)
    THEN (IF Includes(r.content, PresentationSub) THEN "google-slides"
          ELSE IF Includes(r.content, DocumentSub) THEN "google-docs"
          ELSE r.contentType)
    ELSE IF StartsWith(r.content, DataImage) THEN "image"
    ELSE r.contentType

\* C21: in /api/analyze a tag supplied by the caller (pdf, image, google-docs,
\* google-slides) is never overridden; when none is supplied (the field is
\* absent or empty), a link containing '/presentation/' gets google-slides,
\* otherwise a link containing '/document/' gets google-docs, content with
\* the image data-URI prefix gets image, and in every other case the tag
\* stays unset.
C21_TagInference ==
    InferenceRan =>
        /\ dtype = TagFor(req)
        /\ Truthy(req.contentType) => dtype = req.contentType
        /\ ~Truthy(dtype) => dtype = req.contentType

\* C21 witness: no tag supplied and a link that holds both '/presentation/'
\* and '/document/', resolved and sent to the model as google-slides
C21_Witness ==
    /\ InferenceRan /\ Generates # <<>> /\ resolved = "ok"
    /\ ~Truthy(req.contentType)
    /\ Includes(req.content, PresentationSub) /\ Includes(req.content, DocumentSub)
    /\ dtype = "google-slides"

\* the content-type tags a request can carry, and none
AnyTag == {"undefined", "", "pdf", "image", "google-docs", "google-slides"}

\* the status of the answer, told from what does not involve the tag
StatusWithoutTag ==
    IF TaskOrContentMissing \/ resolved = "failed" THEN 400
    ELSE IF StartsWith(content, DataImage) /\ ~MatchesStrictPattern(content) THEN 400
    ELSE IF settled[Len(settled)].kind = "ok" THEN 200
    ELSE 500

\* C22: the content-type tag affects only the prompt wording: the outbound
\* fetches, the text/image branch, the inline image part and the response
\* status of a request are those of the same request with any other
\* contentType; only the instruction text may differ.
C22_TagOnlyWording ==
    Received =>
        /\ \A i \in 1..Len(Exports) :
              Exports[i] = ExportCall(extractGoogleDocId(req.content),
                                      IF i = 1 THEN "txt" ELSE "plain")
        /\ Generates # <<>> =>
              \A d \in AnyTag :
                  LET p == Generates[1].parts
                      q == Parts(req, content, d)
                  IN  /\ Len(p) = Len(q)
                      /\ p[1].kind = "text" /\ q[1].kind = "text"
                      /\ Len(p) = 2 => p[2] = q[2]
        /\ aRes.sent => aRes.status = StatusWithoutTag

\* C22 witness: an image sent with the tag google-slides went to the model
\* with its inline image part
C22_Witness ==
    /\ Generates # <<>> /\ req.contentType = "google-slides" /\ req.content = PngUri
    /\ Len(Generates[1].parts) = 2 /\ Generates[1].parts[2].kind = "inlineData"
    /\ aRes.sent /\ aRes.status = 200

\* C23 as stated: when the submission is a document link that resolves, the
\* resolved document is handled as text: the model payload is a single text
\* part with no inline image, whatever the fetched body is, and the request
\* is not refused as an invalid image.
C23_ResolvedLinkIsText ==
    (IsLinkRequest /\ resolved = "ok") =>
        /\ ~(aRes.sent /\ aRes.error = MsgInvalidImage)
        /\ Generates # <<>> =>
              /\ Len(Generates[1].parts) = 1
              /\ Generates[1].parts[1].kind = "text"

----------------------------------------------------------------------------
(* Pagination of GET /api/airtable/homeworks *)

\* the handler ran its loop: the route is served and the credentials are set
Paging == route = "homeworks" /\ tpc \in {"fetching", "done"} /\ tNet # <<>>

\* the records of the pages ps, page after page
RECURSIVE RecordsOf(_)
RecordsOf(ps) == IF ps = <<>> THEN <<>> ELSE Head(ps).records \o RecordsOf(Tail(ps))

\* {id, name, details} of a record, with the defaults
Listed(record) ==
    [id |-> record.id,
     name |-> IF record.fields.Homework_name \in {"undefined", ""}
              THEN "Untitled" ELSE record.fields.Homework_name,
     details |-> IF record.fields.Homework_details = "undefined"
                 THEN "" ELSE record.fields.Homework_details]

\* every page is a JSON page with a list of records
WellFormedPages ==
    \A i \in 1..Len(tPages) :
        tPages[i].kind = "ok" /\ (\A k \in 1..Len(tPages[i].records) :
                                      tPages[i].records[k] # NoRecord)

LastPage == tPages[Len(tPages)]

\* pages are fetched one at a time, each with the offset of the page before,
\* and no page is fetched after a page without an offset; the list is that
\* of all pages in page order
PagesInOrder ==
    /\ Len(tNet) \in {Len(tPages), Len(tPages) + 1}
    /\ tNet[1].query = ""
    /\ \A i \in 2..Len(tNet) :
          /\ tPages[i - 1].kind = "ok" /\ tPages[i - 1].offset # "undefined"
          /\ tNet[i].query = "?offset=" \o tPages[i - 1].offset
    /\ tpc = "fetching" => Len(tNet) = Len(tPages) + 1
    /\ (tpc = "done" /\ LastPage.kind = "ok") =>
          /\ Len(tNet) = Len(tPages) /\ LastPage.offset = "undefined"
    /\ (tpc = "done" /\ WellFormedPages) =>
          /\ tRes.sent /\ tRes.status = 200
          /\ tRes.homeworks =
                [k \in 1..Len(RecordsOf(tPages)) |-> Listed(RecordsOf(tPages)[k])]

\* C24 as stated: pages are fetched one at a time with the previous page's
\* offset until a page carries no offset, the records of all pages are then
\* returned in page order, each mapped to {id, name (default 'Untitled'),
\* details (default '')}; a non-success page response ends the loop with
\* that status and no partial list.
C24_PaginationPassThrough ==
    Paging =>
        /\ PagesInOrder
        /\ (tpc = "done" /\ LastPage.kind \in {"status", "nobody"}) =>
              /\ tRes.sent /\ tRes.status = LastPage.status
              /\ tRes.homeworks = <<>> /\ tRes.error # <<>>

\* C24: as above, and a non-success page response ends the loop with that
\* status and no partial list, or with 500 and no partial list when the body
\* of that response cannot be read.
C24_PaginationStatusOr500 ==
    Paging =>
        /\ PagesInOrder
        /\ (tpc = "done" /\ LastPage.kind \in {"status", "nobody"}) =>
              /\ tRes.sent
              /\ tRes.status = IF LastPage.kind = "status" THEN LastPage.status ELSE 500
              /\ tRes.homeworks = <<>> /\ tRes.error # <<>>

\* C24 witness: three pages, the second and the third asked for with the
\* offset of the page before, answered with the records of all of them
C24_Witness ==
    /\ Paging /\ tpc = "done" /\ Len(tPages) = 3 /\ WellFormedPages
    /\ tNet[2].query = "?offset=o1" /\ tNet[3].query = "?offset=o2"
    /\ tRes.status = 200 /\ Len(tRes.homeworks) = 4
    /\ tRes.homeworks[1].name = "Untitled" /\ tRes.homeworks[1].details = ""

----------------------------------------------------------------------------
(* Cleanup failures and the round trip of an uploaded image *)

\* C25 as stated: a failure to delete the temporary upload file never changes
\* the outcome of the request: after a successful PDF or image conversion
\* the converted content is returned, on the unsupported-type path the
\* answer is 400, and in the error path it is the 500 of the primary error.
C25_CleanupFailureSwallowed ==
    (upc = "done" /\ reqFile.present) =>
        /\ (fileExtension \in {ExtPdf, ExtPng, ExtJpg, ExtJpeg} /\ ~ReadOrParseThrew) =>
              /\ upRes.status = 200
              /\ upRes.type = (IF fileExtension = ExtPdf THEN "text" ELSE "image")
        /\ fileExtension \notin {ExtPdf, ExtPng, ExtJpg, ExtJpeg} => upRes.status = 400
        /\ ReadOrParseThrew => upRes.status = 500

\* C26 as stated: for every uploaded .png/.jpg/.jpeg file, a zero-byte file
\* included, the content string that /api/upload returns with type 'image' is
\* classified as an image by /api/analyze and parses into an inline image
\* part: it never gives 'Invalid image format'.
C26_UploadedImageParses ==
    (upc = "done" /\ upRes.status = 200 /\ upRes.type = "image") =>
        /\ IsImage(upRes.content)
        /\ ~InvalidImage(upRes.content)
        /\ ParseDataUri(upRes.content).matched

\* C27 as stated: when no contentType is supplied and a link is resolved, the
\* inferred tag agrees with the kind the resolver used for the export
\* endpoint: google-docs exactly when the document export was fetched,
\* google-slides exactly when the presentation export was fetched.
C27_TagAgreesWithResolver ==
    (IsLinkRequest /\ ~Truthy(req.contentType) /\ resolved = "ok") =>
        /\ dtype = "google-docs" <=> Exports[1].type = "document"
        /\ dtype = "google-slides" <=> Exports[1].type = "presentation"

----------------------------------------------------------------------------
(* The page *)

\* C28: after any sequence of file selections and link edits, the selected
\* file and a non-empty document link are never both set.
C28_FileOrLink == ~(file # Null /\ googleDocsLink # <<>>)

\* C28 witness: a link was submitted, then cleared, and a file was selected
C28_Witness ==
    /\ uiPc = "idle" /\ file # Null /\ googleDocsLink = <<>>
    /\ uiNet # <<>> /\ uiNet[1].link # <<>>

\* loading is set exactly while handleSubmit awaits a request, the requests
\* are made one after the other, and an analyze request carries a non-blank
\* task, comes from a file or a link, and for a file is the second request,
\* after the upload of that file was answered with success
SubmitFlow ==
    /\ loading <=> uiPc \in {"upload", "analyze"}
    /\ Len(uiDone) = Len(uiNet) - (IF loading THEN 1 ELSE 0)
    /\ \A i \in 1..Len(uiNet) :
          uiNet[i].kind = "analyze" =>
              /\ NonBlank(uiNet[i].task)
              /\ uiNet[i].file # Null \/ uiNet[i].link # <<>>
              /\ uiNet[i].file = Null => i = 1
              /\ uiNet[i].file # Null =>
                    /\ i = 2
                    /\ uiNet[1].kind = "upload" /\ uiNet[1].file = uiNet[i].file
                    /\ uiDone[1] = "ok"

\* C29: in the submit flow loading is true from the start of a submit until
\* it finishes and false afterwards on every path; while loading no second
\* submit starts; /api/analyze is requested only after /api/upload has
\* succeeded when a file is chosen, and never when there is neither file nor
\* link or when the assignment text is blank.
C29_SubmitFlow ==
    [][/\ SubmitFlow /\ SubmitFlow'
       /\ loading => submitTag' = submitTag
       /\ (submitTag' # submitTag /\ uiNet' # <<>>) => loading'
       /\ (submitTag' # submitTag /\ ~loading') => uiError' # ""
       /\ (loading /\ ~loading') => uiPc' = "idle"]_vars

\* C29 witness: a file was uploaded, the analyze request followed and was
\* answered, and loading is off again
C29_Witness ==
    /\ uiPc = "idle" /\ ~loading /\ file # Null
    /\ Len(uiNet) = 2 /\ uiNet[2].kind = "analyze" /\ uiDone = <<"ok", "ok">>
    /\ uiFeedback # <<>> /\ uiError = ""
====
